---- MODULE Spec2Model ----
(***************************************************************************)
(* The allocation macros of native/cocos/renderer/core/memory/MemDef.h:    *)
(* both preprocessor branches (CC_MEMORY_TRACKER defined / not defined),   *)
(* ConstructN, and the destructor loops of the delete macros, run by a     *)
(* client against the CategorisedAllocPolicy backend.                      *)
(*                                                                         *)
(* A macro expansion is modelled as the sequence of events it executes:    *)
(* backend calls, element constructor calls, element destructor calls.     *)
(* The backend (StdAlloc.h / NedPooling.h / JeAlloc.h) and its allocation  *)
(* tracker are not part of MemDef.h; they are modelled from the            *)
(* specification's contract of the Backend Allocation Policy and of the    *)
(* Debug Tracking Decorator.                                               *)
(***************************************************************************)
EXTENDS Integers, Sequences, FiniteSets, TLC

VARIABLES
    tracker,    \* build configuration: CC_MEMORY_TRACKER defined
    nullChk,    \* build property: placement new null-checks its result
    blocks,     \* backend: the live blocks [addr, size, aligned]
    records,    \* tracker: the allocation records [ptr, size, aligned]
    held,       \* client: the pointers it got [ptr, macro, esize, count, align, live]
    ub,         \* an element was constructed/destructed outside a live block,
                \* or an untracked backend released a pointer it does not own
    aborted,    \* the tracked backend asserted
    last        \* the last macro invocation, its events and its result

vars == <<tracker, nullChk, blocks, records, held, ub, aborted, last>>

----------------------------------------------------------------------------
(* Bounds of the model *)

\* width of size_t in the model (sizeof(T)*(count) is computed modulo 2^SizeBits)
SizeBits == 6
\* live blocks the client keeps at a time
MaxBlocks == 2
\* bytes of one slot of the modelled heap
SlotSize == 64

SizeMod == 2 ^ SizeBits

\* sizeof(T) of the element types the client uses
ElemSizes == {4, 16}
\* the (bytes) arguments
Bytes == {0, 1, 16}
\* the (T, count) arguments of the array macros: an empty array, a small
\* one, and one whose byte count sizeof(T)*(count) wraps
Shapes ==
    {[esize |-> 4, count |-> 0], [esize |-> 4, count |-> 2],
     [esize |-> 16, count |-> SizeMod \div 16]}
\* the (align) arguments of the raw aligned macros
Aligns == {1, 4, 8, 16, 32}
\* the (align) arguments of the typed aligned macros
TypeAligns == {4, 32}

----------------------------------------------------------------------------
(* Program constants *)

NULL == 0
CC_SIMD_ALIGNMENT == 16

\* sizeof(T)*(count) in size_t arithmetic
SizeofTimes(esize, count) == (esize * count) % SizeMod

----------------------------------------------------------------------------
(* Events of a macro expansion *)

Ctor(at, idx, sz) == [ev |-> "ctor", at |-> at, idx |-> idx, sz |-> sz]
Dtor(at, idx, sz) == [ev |-> "dtor", at |-> at, idx |-> idx, sz |-> sz]
Call(fn, align, bytes, ptr, ret, site) ==
    [ev |-> "call", fn |-> fn, align |-> align, bytes |-> bytes,
     ptr |-> ptr, ret |-> ret, site |-> site]

\* new (p) T : the placement form of operator new is noexcept; handing it a
\* null pointer is undefined, and a build either null-checks the result and
\* skips the constructor or runs the constructor at the null address.
PlacementNew(p, idx, esize) ==
    IF p = NULL /\ nullChk THEN <<>> ELSE <<Ctor(p, idx, esize)>>

RECURSIVE ConstructLoop(_, _, _, _)
ConstructLoop(basePtr, esize, i, count) ==
    IF i < count
    THEN PlacementNew(basePtr + i * esize, i, esize)
         \o ConstructLoop(basePtr, esize, i + 1, count)
    ELSE <<>>

\* mutant: the loop runs while i <= count
ConstructN_OffByOne(basePtr, esize, count) ==
    [evs |-> ConstructLoop(basePtr, esize, 0, count + 1), res |-> basePtr]

\* T* ConstructN(T* basePtr, size_t count)
ConstructN(basePtr, esize, count) ==
    [evs |-> ConstructLoop(basePtr, esize, 0, count), res |-> basePtr]

RECURSIVE DestructLoop(_, _, _, _)
DestructLoop(ptr, esize, b, count) ==
    IF b < count
    THEN <<Dtor(ptr + b * esize, b, esize)>> \o DestructLoop(ptr, esize, b + 1, count)
    ELSE <<>>

\* for (size_t b = 0; b < (size_t)count; ++b) {(ptr)[b].~T();}
DestructN(ptr, esize, count) == DestructLoop(ptr, esize, 0, count)

Stmt(evs) == [evs |-> evs, res |-> NULL]

IsCall(e) == e.ev = "call"
IsCtor(e) == e.ev = "ctor"
IsDtor(e) == e.ev = "dtor"
Calls(evs) == SelectSeq(evs, IsCall)
Ctors(evs) == SelectSeq(evs, IsCtor)
Dtors(evs) == SelectSeq(evs, IsDtor)
Idx(evs) == [i \in 1..Len(evs) |-> evs[i].idx]

----------------------------------------------------------------------------
(* The macros of the #else branch (CC_MEMORY_TRACKER not defined).         *)
(* ret is what the backend call of the expansion returns.                  *)

_CC_MALLOC(bytes, ret) ==
    [evs |-> <<Call("AllocateBytes", 0, bytes, NULL, ret, FALSE)>>, res |-> ret]

_CC_REALLOC(ptr, bytes, ret) ==
    [evs |-> <<Call("ReallocateBytes", 0, bytes, ptr, ret, FALSE)>>, res |-> ret]

_CC_ALLOC_T(esize, count, ret) ==
    [evs |-> <<Call("AllocateBytes", 0, SizeofTimes(esize, count), NULL, ret, FALSE)>>,
     res |-> ret]

_CC_FREE(ptr) ==
    Stmt(<<Call("DeallocateBytes", 0, 0, ptr, NULL, FALSE)>>)

_CC_NEW_T(esize, ret) ==
    [evs |-> <<Call("AllocateBytes", 0, esize, NULL, ret, FALSE)>>
             \o PlacementNew(ret, 0, esize),
     res |-> ret]

_CC_NEW_ARRAY_T(esize, count, ret) ==
    LET c == ConstructN(ret, esize, count)
    IN  [evs |-> <<Call("AllocateBytes", 0, SizeofTimes(esize, count), NULL, ret, FALSE)>>
                 \o c.evs,
         res |-> c.res]

\* mutant: the block is released before the destructor runs
_CC_DELETE_T_ReleaseFirst(ptr, esize) ==
    IF ptr # NULL
    THEN Stmt(<<Call("DeallocateBytes", 0, 0, ptr, NULL, FALSE)>>
              \o <<Dtor(ptr, 0, esize)>>)
    ELSE Stmt(<<>>)

_CC_DELETE_T(ptr, esize) ==
    IF ptr # NULL
    THEN Stmt(<<Dtor(ptr, 0, esize)>>
              \o <<Call("DeallocateBytes", 0, 0, ptr, NULL, FALSE)>>)
    ELSE Stmt(<<>>)

_CC_DELETE_ARRAY_T(ptr, esize, count) ==
    IF ptr # NULL
    THEN Stmt(DestructN(ptr, esize, count)
              \o <<Call("DeallocateBytes", 0, 0, ptr, NULL, FALSE)>>)
    ELSE Stmt(<<>>)

\* mutant: the arguments reach AllocateBytesAligned in the macro's order
_CC_MALLOC_ALIGN_Swapped(bytes, align, ret) ==
    [evs |-> <<Call("AllocateBytesAligned", bytes, align, NULL, ret, FALSE)>>,
     res |-> ret]

_CC_MALLOC_ALIGN(bytes, align, ret) ==
    [evs |-> <<Call("AllocateBytesAligned", align, bytes, NULL, ret, FALSE)>>,
     res |-> ret]

_CC_ALLOC_T_ALIGN(esize, count, align, ret) ==
    [evs |-> <<Call("AllocateBytesAligned", align, SizeofTimes(esize, count),
                    NULL, ret, FALSE)>>,
     res |-> ret]

_CC_FREE_ALIGN(ptr, align) ==
    Stmt(<<Call("DeallocateBytesAligned", 0, 0, ptr, NULL, FALSE)>>)

_CC_MALLOC_SIMD(bytes, ret) == _CC_MALLOC_ALIGN(bytes, CC_SIMD_ALIGNMENT, ret)

_CC_ALLOC_T_SIMD(esize, count, ret) ==
    _CC_ALLOC_T_ALIGN(esize, count, CC_SIMD_ALIGNMENT, ret)

_CC_FREE_SIMD(ptr) == _CC_FREE_ALIGN(ptr, CC_SIMD_ALIGNMENT)

_CC_NEW_T_ALIGN(esize, align, ret) ==
    [evs |-> <<Call("AllocateBytesAligned", align, esize, NULL, ret, FALSE)>>
             \o PlacementNew(ret, 0, esize),
     res |-> ret]

_CC_NEW_ARRAY_T_ALIGN(esize, count, align, ret) ==
    LET c == ConstructN(ret, esize, count)
    IN  [evs |-> <<Call("AllocateBytesAligned", align, SizeofTimes(esize, count),
                        NULL, ret, FALSE)>>
                 \o c.evs,
         res |-> c.res]

_CC_DELETE_T_ALIGN(ptr, esize, align) ==
    IF ptr # NULL
    THEN Stmt(<<Dtor(ptr, 0, esize)>>
              \o <<Call("DeallocateBytesAligned", 0, 0, ptr, NULL, FALSE)>>)
    ELSE Stmt(<<>>)

_CC_DELETE_ARRAY_T_ALIGN(ptr, esize, count, align) ==
    IF ptr # NULL
    THEN Stmt(DestructN(ptr, esize, count)
              \o <<Call("DeallocateBytesAligned", 0, 0, ptr, NULL, FALSE)>>)
    ELSE Stmt(<<>>)

_CC_NEW_T_SIMD(esize, ret) == _CC_NEW_T_ALIGN(esize, CC_SIMD_ALIGNMENT, ret)

_CC_NEW_ARRAY_T_SIMD(esize, count, ret) ==
    _CC_NEW_ARRAY_T_ALIGN(esize, count, CC_SIMD_ALIGNMENT, ret)

_CC_DELETE_T_SIMD(ptr, esize) == _CC_DELETE_T_ALIGN(ptr, esize, CC_SIMD_ALIGNMENT)

_CC_DELETE_ARRAY_T_SIMD(ptr, esize, count) ==
    _CC_DELETE_ARRAY_T_ALIGN(ptr, esize, count, CC_SIMD_ALIGNMENT)

----------------------------------------------------------------------------
(* The macros of the #ifdef CC_MEMORY_TRACKER branch.  The allocating      *)
(* calls pass __FILE__, __LINE__, __FUNCTION__ (site = TRUE).              *)

Trk_CC_MALLOC(bytes, ret) ==
    [evs |-> <<Call("AllocateBytes", 0, bytes, NULL, ret, TRUE)>>, res |-> ret]

Trk_CC_REALLOC(ptr, bytes, ret) ==
    [evs |-> <<Call("ReallocateBytes", 0, bytes, ptr, ret, TRUE)>>, res |-> ret]

Trk_CC_ALLOC_T(esize, count, ret) ==
    [evs |-> <<Call("AllocateBytes", 0, SizeofTimes(esize, count), NULL, ret, TRUE)>>,
     res |-> ret]

\* mutant: the release never reaches the backend
Trk_CC_FREE_Bypass(ptr) == Stmt(<<>>)

Trk_CC_FREE(ptr) ==
    Stmt(<<Call("DeallocateBytes", 0, 0, ptr, NULL, FALSE)>>)

Trk_CC_NEW_T(esize, ret) ==
    [evs |-> <<Call("AllocateBytes", 0, esize, NULL, ret, TRUE)>>
             \o PlacementNew(ret, 0, esize),
     res |-> ret]

Trk_CC_NEW_ARRAY_T(esize, count, ret) ==
    LET c == ConstructN(ret, esize, count)
    IN  [evs |-> <<Call("AllocateBytes", 0, SizeofTimes(esize, count), NULL, ret, TRUE)>>
                 \o c.evs,
         res |-> c.res]

\* mutant: the destructor runs and the block is never handed back
Trk_CC_DELETE_T_Leak(ptr, esize) ==
    IF ptr # NULL THEN Stmt(<<Dtor(ptr, 0, esize)>>) ELSE Stmt(<<>>)

Trk_CC_DELETE_T(ptr, esize) ==
    IF ptr # NULL
    THEN Stmt(<<Dtor(ptr, 0, esize)>>
              \o <<Call("DeallocateBytes", 0, 0, ptr, NULL, FALSE)>>)
    ELSE Stmt(<<>>)

Trk_CC_DELETE_ARRAY_T(ptr, esize, count) ==
    IF ptr # NULL
    THEN Stmt(DestructN(ptr, esize, count)
              \o <<Call("DeallocateBytes", 0, 0, ptr, NULL, FALSE)>>)
    ELSE Stmt(<<>>)

Trk_CC_MALLOC_ALIGN(bytes, align, ret) ==
    [evs |-> <<Call("AllocateBytesAligned", align, bytes, NULL, ret, TRUE)>>,
     res |-> ret]

Trk_CC_ALLOC_T_ALIGN(esize, count, align, ret) ==
    [evs |-> <<Call("AllocateBytesAligned", align, SizeofTimes(esize, count),
                    NULL, ret, TRUE)>>,
     res |-> ret]

\* mutant: the aligned release goes to the unaligned backend call
Trk_CC_FREE_ALIGN_Unaligned(ptr, align) ==
    Stmt(<<Call("DeallocateBytes", 0, 0, ptr, NULL, FALSE)>>)

Trk_CC_FREE_ALIGN(ptr, align) ==
    Stmt(<<Call("DeallocateBytesAligned", 0, 0, ptr, NULL, FALSE)>>)

Trk_CC_MALLOC_SIMD(bytes, ret) == Trk_CC_MALLOC_ALIGN(bytes, CC_SIMD_ALIGNMENT, ret)

Trk_CC_ALLOC_T_SIMD(esize, count, ret) ==
    Trk_CC_ALLOC_T_ALIGN(esize, count, CC_SIMD_ALIGNMENT, ret)

Trk_CC_FREE_SIMD(ptr) == Trk_CC_FREE_ALIGN(ptr, CC_SIMD_ALIGNMENT)

Trk_CC_NEW_T_ALIGN(esize, align, ret) ==
    [evs |-> <<Call("AllocateBytesAligned", align, esize, NULL, ret, TRUE)>>
             \o PlacementNew(ret, 0, esize),
     res |-> ret]

Trk_CC_NEW_ARRAY_T_ALIGN(esize, count, align, ret) ==
    LET c == ConstructN(ret, esize, count)
    IN  [evs |-> <<Call("AllocateBytesAligned", align, SizeofTimes(esize, count),
                        NULL, ret, TRUE)>>
                 \o c.evs,
         res |-> c.res]

Trk_CC_DELETE_T_ALIGN(ptr, esize, align) ==
    IF ptr # NULL
    THEN Stmt(<<Dtor(ptr, 0, esize)>>
              \o <<Call("DeallocateBytesAligned", 0, 0, ptr, NULL, FALSE)>>)
    ELSE Stmt(<<>>)

Trk_CC_DELETE_ARRAY_T_ALIGN(ptr, esize, count, align) ==
    IF ptr # NULL
    THEN Stmt(DestructN(ptr, esize, count)
              \o <<Call("DeallocateBytesAligned", 0, 0, ptr, NULL, FALSE)>>)
    ELSE Stmt(<<>>)

Trk_CC_NEW_T_SIMD(esize, ret) == Trk_CC_NEW_T_ALIGN(esize, CC_SIMD_ALIGNMENT, ret)

Trk_CC_NEW_ARRAY_T_SIMD(esize, count, ret) ==
    Trk_CC_NEW_ARRAY_T_ALIGN(esize, count, CC_SIMD_ALIGNMENT, ret)

Trk_CC_DELETE_T_SIMD(ptr, esize) == Trk_CC_DELETE_T_ALIGN(ptr, esize, CC_SIMD_ALIGNMENT)

\* #define _CC_DELETE_ARRAY_T_SIMD(ptr, T, count)
\*         _CC_DELETE_ARRAY_T_ALIGN(ptr, T, CC_SIMD_ALIGNMENT)
\* The inner macro has four parameters (ptr, T, count, align) and is handed
\* three arguments: CC_SIMD_ALIGNMENT lands in the count position and align
\* is left empty (a preprocessor that accepts the short argument list expands
\* it so; one that rejects it builds no program using the macro).  The
\* count argument of the outer macro is not used.
Trk_CC_DELETE_ARRAY_T_SIMD(ptr, esize, count) ==
    Trk_CC_DELETE_ARRAY_T_ALIGN(ptr, esize, CC_SIMD_ALIGNMENT, "")

----------------------------------------------------------------------------
(* #ifdef CC_MEMORY_TRACKER ... #else ... #endif : which definition of a   *)
(* macro an invocation expands to.                                         *)

Expand(trk, inv, ret) ==
    CASE inv.macro = "_CC_MALLOC" ->
           IF trk THEN Trk_CC_MALLOC(inv.bytes, ret) ELSE _CC_MALLOC(inv.bytes, ret)
      [] inv.macro = "_CC_REALLOC" ->
           IF trk THEN Trk_CC_REALLOC(inv.ptr, inv.bytes, ret)
                  ELSE _CC_REALLOC(inv.ptr, inv.bytes, ret)
      [] inv.macro = "_CC_ALLOC_T" ->
           IF trk THEN Trk_CC_ALLOC_T(inv.esize, inv.count, ret)
                  ELSE _CC_ALLOC_T(inv.esize, inv.count, ret)
      [] inv.macro = "_CC_FREE" ->
           IF trk THEN Trk_CC_FREE(inv.ptr) ELSE _CC_FREE(inv.ptr)
      [] inv.macro = "_CC_NEW_T" ->
           IF trk THEN Trk_CC_NEW_T(inv.esize, ret) ELSE _CC_NEW_T(inv.esize, ret)
      [] inv.macro = "_CC_NEW_ARRAY_T" ->
           IF trk THEN Trk_CC_NEW_ARRAY_T(inv.esize, inv.count, ret)
                  ELSE _CC_NEW_ARRAY_T(inv.esize, inv.count, ret)
      [] inv.macro = "_CC_DELETE_T" ->
           IF trk THEN Trk_CC_DELETE_T(inv.ptr, inv.esize)
                  ELSE _CC_DELETE_T(inv.ptr, inv.esize)
      [] inv.macro = "_CC_DELETE_ARRAY_T" ->
           IF trk THEN Trk_CC_DELETE_ARRAY_T(inv.ptr, inv.esize, inv.count)
                  ELSE _CC_DELETE_ARRAY_T(inv.ptr, inv.esize, inv.count)
      [] inv.macro = "_CC_MALLOC_ALIGN" ->
           IF trk THEN Trk_CC_MALLOC_ALIGN(inv.bytes, inv.align, ret)
                  ELSE _CC_MALLOC_ALIGN(inv.bytes, inv.align, ret)
      [] inv.macro = "_CC_ALLOC_T_ALIGN" ->
           IF trk THEN Trk_CC_ALLOC_T_ALIGN(inv.esize, inv.count, inv.align, ret)
                  ELSE _CC_ALLOC_T_ALIGN(inv.esize, inv.count, inv.align, ret)
      [] inv.macro = "_CC_FREE_ALIGN" ->
           IF trk THEN Trk_CC_FREE_ALIGN(inv.ptr, inv.align)
                  ELSE _CC_FREE_ALIGN(inv.ptr, inv.align)
      [] inv.macro = "_CC_MALLOC_SIMD" ->
           IF trk THEN Trk_CC_MALLOC_SIMD(inv.bytes, ret)
                  ELSE _CC_MALLOC_SIMD(inv.bytes, ret)
      [] inv.macro = "_CC_ALLOC_T_SIMD" ->
           IF trk THEN Trk_CC_ALLOC_T_SIMD(inv.esize, inv.count, ret)
                  ELSE _CC_ALLOC_T_SIMD(inv.esize, inv.count, ret)
      [] inv.macro = "_CC_FREE_SIMD" ->
           IF trk THEN Trk_CC_FREE_SIMD(inv.ptr) ELSE _CC_FREE_SIMD(inv.ptr)
      [] inv.macro = "_CC_NEW_T_ALIGN" ->
           IF trk THEN Trk_CC_NEW_T_ALIGN(inv.esize, inv.align, ret)
                  ELSE _CC_NEW_T_ALIGN(inv.esize, inv.align, ret)
      [] inv.macro = "_CC_NEW_ARRAY_T_ALIGN" ->
           IF trk THEN Trk_CC_NEW_ARRAY_T_ALIGN(inv.esize, inv.count, inv.align, ret)
                  ELSE _CC_NEW_ARRAY_T_ALIGN(inv.esize, inv.count, inv.align, ret)
      [] inv.macro = "_CC_DELETE_T_ALIGN" ->
           IF trk THEN Trk_CC_DELETE_T_ALIGN(inv.ptr, inv.esize, inv.align)
                  ELSE _CC_DELETE_T_ALIGN(inv.ptr, inv.esize, inv.align)
      [] inv.macro = "_CC_DELETE_ARRAY_T_ALIGN" ->
           IF trk THEN Trk_CC_DELETE_ARRAY_T_ALIGN(inv.ptr, inv.esize, inv.count, inv.align)
                  ELSE _CC_DELETE_ARRAY_T_ALIGN(inv.ptr, inv.esize, inv.count, inv.align)
      [] inv.macro = "_CC_NEW_T_SIMD" ->
           IF trk THEN Trk_CC_NEW_T_SIMD(inv.esize, ret) ELSE _CC_NEW_T_SIMD(inv.esize, ret)
      [] inv.macro = "_CC_NEW_ARRAY_T_SIMD" ->
           IF trk THEN Trk_CC_NEW_ARRAY_T_SIMD(inv.esize, inv.count, ret)
                  ELSE _CC_NEW_ARRAY_T_SIMD(inv.esize, inv.count, ret)
      [] inv.macro = "_CC_DELETE_T_SIMD" ->
           IF trk THEN Trk_CC_DELETE_T_SIMD(inv.ptr, inv.esize)
                  ELSE _CC_DELETE_T_SIMD(inv.ptr, inv.esize)
      [] inv.macro = "_CC_DELETE_ARRAY_T_SIMD" ->
           IF trk THEN Trk_CC_DELETE_ARRAY_T_SIMD(inv.ptr, inv.esize, inv.count)
                  ELSE _CC_DELETE_ARRAY_T_SIMD(inv.ptr, inv.esize, inv.count)

\* "Free the memory allocated with ..." : the release macro the header
\* documents for each allocating macro
ReleaseMacroFor(m) ==
    CASE m \in {"_CC_MALLOC", "_CC_ALLOC_T"}             -> "_CC_FREE"
      [] m = "_CC_NEW_T"                                 -> "_CC_DELETE_T"
      [] m = "_CC_NEW_ARRAY_T"                           -> "_CC_DELETE_ARRAY_T"
      [] m \in {"_CC_MALLOC_ALIGN", "_CC_ALLOC_T_ALIGN"} -> "_CC_FREE_ALIGN"
      [] m \in {"_CC_MALLOC_SIMD", "_CC_ALLOC_T_SIMD"}   -> "_CC_FREE_SIMD"
      [] m = "_CC_NEW_T_ALIGN"                           -> "_CC_DELETE_T_ALIGN"
      [] m = "_CC_NEW_ARRAY_T_ALIGN"                     -> "_CC_DELETE_ARRAY_T_ALIGN"
      [] m = "_CC_NEW_T_SIMD"                            -> "_CC_DELETE_T_SIMD"
      [] m = "_CC_NEW_ARRAY_T_SIMD"                      -> "_CC_DELETE_ARRAY_T_SIMD"

\* the macros under the header's "// aligned allocation" heading
AlignedMacros ==
    {"_CC_MALLOC_ALIGN", "_CC_ALLOC_T_ALIGN", "_CC_MALLOC_SIMD", "_CC_ALLOC_T_SIMD",
     "_CC_NEW_T_ALIGN", "_CC_NEW_ARRAY_T_ALIGN", "_CC_NEW_T_SIMD", "_CC_NEW_ARRAY_T_SIMD"}

UnalignedMacros == {"_CC_MALLOC", "_CC_ALLOC_T", "_CC_NEW_T", "_CC_NEW_ARRAY_T"}

----------------------------------------------------------------------------
(* The backend, CategorisedAllocPolicy, and its tracker.  A heap h is      *)
(* [blocks, records, ub, aborted].                                         *)

Extent(size) == IF size = 0 THEN 1 ELSE size

\* The modelled backend is a pool of MaxBlocks slots of SlotSize bytes, one
\* block a slot; the first slot starts at address 1, so that no address is
\* aligned by chance.
Slots == 0 .. (MaxBlocks - 1)

SlotBase(i) == i * SlotSize + 1

SlotOf(a) == (a - 1) \div SlotSize

AlignUp(a, align) ==
    IF align = 0 THEN a ELSE ((a + align - 1) \div align) * align

Candidates(bs, align, n) ==
    {AlignUp(SlotBase(i), align) :
        i \in {j \in Slots :
                 /\ \A b \in bs : SlotOf(b.addr) # j
                 /\ SlotOf(AlignUp(SlotBase(j), align) + Extent(n) - 1) = j}}

Lowest(S) == CHOOSE a \in S : \A b \in S : a <= b

\* what an allocating backend call may return: failure, or the block it finds
BackendReturns(bs, align, n) ==
    {NULL} \cup (IF Candidates(bs, align, n) = {} THEN {}
                 ELSE {Lowest(Candidates(bs, align, n))})

Insert(h, ret, bytes, aligned, site) ==
    IF ret = NULL THEN h
    ELSE [h EXCEPT
            !.blocks = @ \cup {[addr |-> ret, size |-> bytes, aligned |-> aligned]},
            !.records = IF site
                        THEN @ \cup {[ptr |-> ret, size |-> bytes, aligned |-> aligned]}
                        ELSE @]

Erase(h, ptr, aligned, trk) ==
    IF ptr = NULL THEN h
    ELSE IF trk /\ ~(\E r \in h.records : r.ptr = ptr /\ r.aligned = aligned)
    THEN [h EXCEPT !.aborted = TRUE]
    ELSE IF ~(\E b \in h.blocks : b.addr = ptr /\ b.aligned = aligned)
    THEN [h EXCEPT !.ub = TRUE]
    ELSE [h EXCEPT !.blocks = {b \in @ : b.addr # ptr},
                   !.records = {r \in @ : r.ptr # ptr}]

AllocateBytes(h, bytes, ret, site) == Insert(h, ret, bytes, FALSE, site)

AllocateBytesAligned(h, align, bytes, ret, site) == Insert(h, ret, bytes, TRUE, site)

DeallocateBytes(h, ptr, trk) == Erase(h, ptr, FALSE, trk)

DeallocateBytesAligned(h, ptr, trk) == Erase(h, ptr, TRUE, trk)

\* on failure the original block stays as it is
ReallocateBytes(h, ptr, bytes, ret, site) ==
    IF ret = NULL THEN h
    ELSE Insert([h EXCEPT !.blocks = {b \in @ : b.addr # ptr},
                          !.records = {r \in @ : r.ptr # ptr}],
                ret, bytes, FALSE, site)

\* an element of sz bytes at address a lies in a live block
Inside(bs, a, sz) == \E b \in bs : b.addr <= a /\ a + sz <= b.addr + b.size

Step(h, e, trk) ==
    IF h.aborted THEN h
    ELSE IF e.ev \in {"ctor", "dtor"}
    THEN (IF Inside(h.blocks, e.at, e.sz) THEN h ELSE [h EXCEPT !.ub = TRUE])
    ELSE CASE e.fn = "AllocateBytes" -> AllocateBytes(h, e.bytes, e.ret, e.site)
           [] e.fn = "AllocateBytesAligned" ->
                AllocateBytesAligned(h, e.align, e.bytes, e.ret, e.site)
           [] e.fn = "ReallocateBytes" -> ReallocateBytes(h, e.ptr, e.bytes, e.ret, e.site)
           [] e.fn = "DeallocateBytes" -> DeallocateBytes(h, e.ptr, trk)
           [] e.fn = "DeallocateBytesAligned" -> DeallocateBytesAligned(h, e.ptr, trk)

RECURSIVE Run(_, _, _)
Run(h, evs, trk) ==
    IF evs = <<>> THEN h ELSE Run(Step(h, Head(evs), trk), Tail(evs), trk)

----------------------------------------------------------------------------
(* The client: one action per macro.                                       *)

Heap == [blocks |-> blocks, records |-> records, ub |-> ub, aborted |-> aborted]

AllocMacros == AlignedMacros \cup UnalignedMacros

\* Nothing runs after an assert, nothing is said of a run after undefined
\* behaviour, and the client treats a failed allocation as fatal.
Running ==
    /\ ~ub
    /\ ~aborted
    /\ ~(last.macro \in AllocMacros /\ last.res = NULL)

Live == {k \in held : k.live}

\* An invocation: the macro and its arguments; for a release of a held
\* pointer also the macro that allocated it (alloc), the indices that macro
\* constructed (built), and whether the pointer was released before (stale).
Inv(macro, ptr, bytes, esize, count, align, alloc, built, stale) ==
    [macro |-> macro, ptr |-> ptr, bytes |-> bytes, esize |-> esize,
     count |-> count, align |-> align, alloc |-> alloc, built |-> built,
     stale |-> stale]

AllocInv(macro, bytes, esize, count, align) ==
    Inv(macro, NULL, bytes, esize, count, align, "none", <<>>, FALSE)

NoInv == AllocInv("none", 0, 0, 0, 0)

\* the invocation as it ran under this configuration (evs, res) and as the
\* other configuration expands it (twin, twinRes)
Ran(inv, x, y) ==
    [macro |-> inv.macro, ptr |-> inv.ptr, bytes |-> inv.bytes, esize |-> inv.esize,
     count |-> inv.count, align |-> inv.align, alloc |-> inv.alloc,
     built |-> inv.built, stale |-> inv.stale,
     evs |-> x.evs, res |-> x.res, twin |-> y.evs, twinRes |-> y.res]

Commit(h, inv, x, y) ==
    /\ blocks' = h.blocks
    /\ records' = h.records
    /\ ub' = h.ub
    /\ aborted' = h.aborted
    /\ last' = Ran(inv, x, y)
    /\ UNCHANGED <<tracker, nullChk>>

Handle(inv, x) ==
    [ptr |-> x.res, macro |-> inv.macro, esize |-> inv.esize, count |-> inv.count,
     align |-> inv.align, built |-> Idx(Ctors(x.evs)), live |-> TRUE]

\* an allocating macro: ptr = MACRO(args).  The client forgets the pointers
\* it has released.
AllocAct(inv) ==
    /\ Running
    /\ Cardinality(Live) < MaxBlocks
    /\ LET c == Expand(tracker, inv, NULL).evs[1]
       IN  \E ret \in BackendReturns(blocks, c.align, c.bytes) :
             LET x == Expand(tracker, inv, ret)
                 y == Expand(~tracker, inv, ret)
                 h == Run(Heap, x.evs, tracker)
             IN  /\ Commit(h, inv, x, y)
                 /\ held' = IF x.res = NULL THEN Live
                            ELSE Live \cup {Handle(inv, x)}

\* ptr = _CC_REALLOC(ptr, bytes) on a block of _CC_MALLOC / _CC_ALLOC_T
ReallocAct(k, bytes) ==
    /\ Running
    /\ LET inv == Inv("_CC_REALLOC", k.ptr, bytes, 0, 0, 0, k.macro, k.built, FALSE)
       IN  \E ret \in BackendReturns({b \in blocks : b.addr # k.ptr}, 0, bytes) :
             LET x == Expand(tracker, inv, ret)
                 y == Expand(~tracker, inv, ret)
                 h == Run(Heap, x.evs, tracker)
             IN  /\ Commit(h, inv, x, y)
                 /\ held' = IF x.res = NULL THEN Live
                            ELSE (Live \ {k}) \cup {[k EXCEPT !.ptr = x.res]}

\* a release macro on a pointer the client holds: a live one, or the one it
\* released last (a second release)
ReleaseHeld(macro) ==
    \E k \in held :
      /\ ReleaseMacroFor(k.macro) = macro
      /\ LET inv == Inv(macro, k.ptr, 0, k.esize, k.count, k.align, k.macro, k.built,
                        ~k.live)
             x == Expand(tracker, inv, NULL)
             y == Expand(~tracker, inv, NULL)
             h == Run(Heap, x.evs, tracker)
         IN  /\ Commit(h, inv, x, y)
             /\ held' = IF h.aborted \/ ~k.live THEN held
                        ELSE (Live \ {k}) \cup {[k EXCEPT !.live = FALSE]}

\* a release macro on a null pointer
ReleaseNull(macro) ==
    /\ held = Live
    /\ Cardinality(Live) < MaxBlocks
    /\ LET inv == Inv(macro, NULL, 0, 4, 2, CC_SIMD_ALIGNMENT, "none", <<>>, FALSE)
           x == Expand(tracker, inv, NULL)
           y == Expand(~tracker, inv, NULL)
           h == Run(Heap, x.evs, tracker)
       IN  /\ Commit(h, inv, x, y)
           /\ held' = held

\* a release macro, on a pointer the client holds or on a null pointer
ReleaseAct(macro) ==
    \E onNull \in BOOLEAN :
      IF onNull THEN ReleaseNull(macro) ELSE ReleaseHeld(macro)

\* The first block the client allocates draws its arguments from the whole
\* input sets, the second from one representative of each, and a further
\* one is a raw block of the representative size.
BytesIn == IF Live = {} THEN Bytes ELSE {16}
ElemSizesIn ==
    IF Live = {} THEN ElemSizes ELSE IF Cardinality(Live) = 1 THEN {4} ELSE {}
ShapesIn ==
    IF Live = {} THEN Shapes
    ELSE IF Cardinality(Live) = 1 THEN {[esize |-> 4, count |-> 2]} ELSE {}
AlignsIn == IF Live = {} THEN Aligns ELSE {8}
TypeAlignsIn == IF Live = {} THEN TypeAligns ELSE {32}

Malloc ==
    \E bytes \in BytesIn : AllocAct(AllocInv("_CC_MALLOC", bytes, 0, 0, 0))

Realloc ==
    \E k \in Live, bytes \in Bytes \ {0} :
      k.macro \in {"_CC_MALLOC", "_CC_ALLOC_T"} /\ ReallocAct(k, bytes)

AllocT ==
    \E t \in ShapesIn :
      AllocAct(AllocInv("_CC_ALLOC_T", 0, t.esize, t.count, 0))

Free == Running /\ ReleaseAct("_CC_FREE")

NewT ==
    \E esize \in ElemSizesIn :
      AllocAct(AllocInv("_CC_NEW_T", 0, esize, 1, 0))

NewArrayT ==
    \E t \in ShapesIn :
      AllocAct(AllocInv("_CC_NEW_ARRAY_T", 0, t.esize, t.count, 0))

DeleteT == Running /\ ReleaseAct("_CC_DELETE_T")

DeleteArrayT == Running /\ ReleaseAct("_CC_DELETE_ARRAY_T")

MallocAlign ==
    \E bytes \in BytesIn, align \in AlignsIn :
      AllocAct(AllocInv("_CC_MALLOC_ALIGN", bytes, 0, 0, align))

AllocTAlign ==
    \E t \in ShapesIn, align \in TypeAlignsIn :
      AllocAct(AllocInv("_CC_ALLOC_T_ALIGN", 0, t.esize, t.count, align))

FreeAlign == Running /\ ReleaseAct("_CC_FREE_ALIGN")

MallocSimd ==
    \E bytes \in BytesIn :
      AllocAct(AllocInv("_CC_MALLOC_SIMD", bytes, 0, 0, 0))

AllocTSimd ==
    \E t \in ShapesIn :
      AllocAct(AllocInv("_CC_ALLOC_T_SIMD", 0, t.esize, t.count, 0))

FreeSimd == Running /\ ReleaseAct("_CC_FREE_SIMD")

NewTAlign ==
    \E esize \in ElemSizesIn, align \in TypeAlignsIn :
      AllocAct(AllocInv("_CC_NEW_T_ALIGN", 0, esize, 1, align))

NewArrayTAlign ==
    \E t \in ShapesIn, align \in TypeAlignsIn :
      AllocAct(AllocInv("_CC_NEW_ARRAY_T_ALIGN", 0, t.esize, t.count, align))

DeleteTAlign == Running /\ ReleaseAct("_CC_DELETE_T_ALIGN")

DeleteArrayTAlign == Running /\ ReleaseAct("_CC_DELETE_ARRAY_T_ALIGN")

NewTSimd ==
    \E esize \in ElemSizesIn :
      AllocAct(AllocInv("_CC_NEW_T_SIMD", 0, esize, 1, 0))

NewArrayTSimd ==
    \E t \in ShapesIn :
      AllocAct(AllocInv("_CC_NEW_ARRAY_T_SIMD", 0, t.esize, t.count, 0))

DeleteTSimd == Running /\ ReleaseAct("_CC_DELETE_T_SIMD")

DeleteArrayTSimd == Running /\ ReleaseAct("_CC_DELETE_ARRAY_T_SIMD")

Init ==
    /\ tracker \in BOOLEAN
    /\ nullChk \in BOOLEAN
    /\ blocks = {}
    /\ records = {}
    /\ held = {}
    /\ ub = FALSE
    /\ aborted = FALSE
    /\ last = Ran(NoInv, Stmt(<<>>), Stmt(<<>>))

Next ==
    \/ Malloc
    \/ Realloc
    \/ AllocT
    \/ Free
    \/ NewT
    \/ NewArrayT
    \/ DeleteT
    \/ DeleteArrayT
    \/ MallocAlign
    \/ AllocTAlign
    \/ FreeAlign
    \/ MallocSimd
    \/ AllocTSimd
    \/ FreeSimd
    \/ NewTAlign
    \/ NewArrayTAlign
    \/ DeleteTAlign
    \/ DeleteArrayTAlign
    \/ NewTSimd
    \/ NewArrayTSimd
    \/ DeleteTSimd
    \/ DeleteArrayTSimd

Spec == Init /\ [][Next]_vars

----------------------------------------------------------------------------
(* Properties *)

\* the sequence 0, 1, ..., n-1
Upto(n) == [i \in 1..n |-> i - 1]

\* the events without the call-site arguments
NoSite(evs) ==
    [i \in 1..Len(evs) |->
        IF IsCall(evs[i]) THEN [evs[i] EXCEPT !.site = FALSE] ELSE evs[i]]

ElementsAt(evs, ptr, esize) ==
    \A i \in 1..Len(evs) : evs[i].at = ptr + evs[i].idx * esize

DeleteMacros ==
    {"_CC_DELETE_T", "_CC_DELETE_ARRAY_T", "_CC_DELETE_T_ALIGN", "_CC_DELETE_ARRAY_T_ALIGN"}

ReleaseMacros ==
    DeleteMacros \cup {"_CC_FREE", "_CC_FREE_ALIGN", "_CC_FREE_SIMD",
                       "_CC_DELETE_T_SIMD", "_CC_DELETE_ARRAY_T_SIMD"}

NewMacros ==
    {"_CC_NEW_T", "_CC_NEW_ARRAY_T", "_CC_NEW_T_ALIGN", "_CC_NEW_ARRAY_T_ALIGN",
     "_CC_NEW_T_SIMD", "_CC_NEW_ARRAY_T_SIMD"}

\* C1: an array built by _CC_NEW_ARRAY_T(T, N) ran exactly N constructor
\* calls, at indices 0, 1, ..., N-1 in that order, and its release by
\* _CC_DELETE_ARRAY_T(ptr, T, N) runs exactly N destructor calls, at indices
\* 0, 1, ..., N-1 in that order.
C1_ArrayConstructDestruct ==
    /\ (last.macro = "_CC_NEW_ARRAY_T" /\ last.res # NULL) =>
          /\ Idx(Ctors(last.evs)) = Upto(last.count)
          /\ ElementsAt(Ctors(last.evs), last.res, last.esize)
    /\ (last.macro = "_CC_DELETE_ARRAY_T" /\ last.alloc = "_CC_NEW_ARRAY_T"
        /\ ~last.stale) =>
          /\ last.built = Upto(last.count)
          /\ Idx(Dtors(last.evs)) = Upto(last.count)
          /\ ElementsAt(Dtors(last.evs), last.ptr, last.esize)

C1_Witness ==
    /\ last.macro = "_CC_DELETE_ARRAY_T"
    /\ last.alloc = "_CC_NEW_ARRAY_T"
    /\ ~last.stale
    /\ last.count = 2
    /\ Len(last.built) = 2
    /\ Len(Dtors(last.evs)) = 2

\* C2: a delete macro (_CC_DELETE_T, _CC_DELETE_ARRAY_T, _CC_DELETE_T_ALIGN,
\* _CC_DELETE_ARRAY_T_ALIGN) on a non-null pointer makes exactly one backend
\* call, the release of that pointer, as its last step and after every
\* destructor call; on a live block no destructor runs on released memory
\* and the block is gone afterwards.
C2_ReleaseAfterDestructors ==
    (last.macro \in DeleteMacros /\ last.ptr # NULL) =>
       LET n == Len(last.evs)
       IN  /\ n >= 1
           /\ IsCall(last.evs[n])
           /\ last.evs[n].fn \in {"DeallocateBytes", "DeallocateBytesAligned"}
           /\ last.evs[n].ptr = last.ptr
           /\ \A i \in 1..(n - 1) : IsDtor(last.evs[i])
           /\ ~last.stale =>
                 /\ ~ub
                 /\ \A b \in blocks : b.addr # last.ptr

C2_Witness ==
    /\ last.macro = "_CC_DELETE_ARRAY_T_ALIGN"
    /\ last.ptr # NULL
    /\ ~last.stale
    /\ Len(Dtors(last.evs)) = 2
    /\ \A b \in blocks : b.addr # last.ptr

\* C3: a block of an aligned allocation macro, released through the macro
\* documented for it, reaches the backend through DeallocateBytesAligned
\* only, and a block of an unaligned allocation macro through
\* DeallocateBytes only; the backend takes the block back.
C3_AlignmentClassPairing ==
    (last.macro \in ReleaseMacros /\ last.alloc # "none" /\ ~last.stale) =>
       /\ Len(Calls(last.evs)) = 1
       /\ last.alloc \in AlignedMacros =>
             Calls(last.evs)[1].fn = "DeallocateBytesAligned"
       /\ last.alloc \in UnalignedMacros =>
             Calls(last.evs)[1].fn = "DeallocateBytes"
       /\ ~aborted
       /\ \A b \in blocks : b.addr # last.ptr

C3_Witness ==
    /\ last.macro = "_CC_FREE_SIMD"
    /\ last.alloc = "_CC_ALLOC_T_SIMD"
    /\ ~last.stale
    /\ Calls(last.evs)[1].fn = "DeallocateBytesAligned"

\* C4: a successful _CC_MALLOC_ALIGN(s, a) with s > 0 hands the backend a as
\* the alignment and s as the size and returns a multiple of a; a successful
\* _CC_MALLOC_SIMD(s) returns a multiple of CC_SIMD_ALIGNMENT.
C4_AlignedAddress ==
    /\ (last.macro = "_CC_MALLOC_ALIGN" /\ last.res # NULL /\ last.bytes > 0) =>
          /\ last.evs[1].align = last.align
          /\ last.evs[1].bytes = last.bytes
          /\ last.res % last.align = 0
    /\ (last.macro = "_CC_MALLOC_SIMD" /\ last.res # NULL /\ last.bytes > 0) =>
          /\ last.evs[1].align = CC_SIMD_ALIGNMENT
          /\ last.evs[1].bytes = last.bytes
          /\ last.res % CC_SIMD_ALIGNMENT = 0

C4_Witness ==
    /\ last.macro = "_CC_MALLOC_ALIGN"
    /\ last.bytes = 1
    /\ last.align = 32
    /\ last.res # NULL
    /\ last.res % 32 = 0

\* C5: whatever macro is invoked, the two configurations execute the same
\* steps (the same backend calls with the same size, alignment and pointer
\* arguments, and the same element constructions and destructions) and give
\* the same result; they differ in the call-site arguments only.
C5_TrackingIsAdditive ==
    /\ NoSite(last.evs) = NoSite(last.twin)
    /\ last.res = last.twinRes

\* C6: with tracking, the live allocation records are exactly the pointers
\* allocated and not yet released, and no record is left for a pointer that
\* was released.
C6_LiveRecords ==
    tracker =>
       /\ {r.ptr : r \in records} = {k.ptr : k \in Live}
       /\ Cardinality(records) = Cardinality(Live)
       /\ \A k \in held \ Live : \A r \in records : r.ptr # k.ptr

C6_Witness ==
    /\ tracker
    /\ last.macro = "_CC_FREE_ALIGN"
    /\ last.ptr # NULL
    /\ ~last.stale
    /\ Cardinality(records) = 1
    /\ Cardinality(held) = 2

\* C7: when the backend fails a request of _CC_NEW_T, _CC_NEW_ARRAY_T or an
\* aligned form of them, the result is the null pointer and no constructor
\* has run.
C7_NoConstructorOnFailure ==
    (last.macro \in NewMacros /\ last.evs[1].ret = NULL) =>
       /\ last.res = NULL
       /\ Ctors(last.evs) = <<>>

\* C8: with tracking, a second release of a pointer, with no allocation in
\* between, ends in the backend's assert, and no block is released by it.
C8_DoubleReleaseAsserts ==
    (tracker /\ last.macro \in ReleaseMacros /\ last.stale) =>
       /\ aborted
       /\ {b.addr : b \in blocks} = {k.ptr : k \in Live}
       /\ {r.ptr : r \in records} = {k.ptr : k \in Live}

C8_Witness ==
    /\ tracker
    /\ last.macro = "_CC_DELETE_T"
    /\ last.stale
    /\ aborted

\* C9: in both configurations _CC_DELETE_ARRAY_T_SIMD(ptr, T, count) on a
\* non-null pointer is _CC_DELETE_ARRAY_T_ALIGN(ptr, T, count,
\* CC_SIMD_ALIGNMENT): it destructs the indices 0..count-1 and then releases
\* the block through DeallocateBytesAligned.
C9_SimdArrayDelete ==
    (last.macro = "_CC_DELETE_ARRAY_T_SIMD" /\ last.ptr # NULL) =>
       /\ last.evs =
            Expand(tracker,
                   [last EXCEPT !.macro = "_CC_DELETE_ARRAY_T_ALIGN",
                                !.align = CC_SIMD_ALIGNMENT], NULL).evs
       /\ Idx(Dtors(last.evs)) = Upto(last.count)
       /\ last.evs[Len(last.evs)].fn = "DeallocateBytesAligned"

\* C10: the byte count _CC_NEW_ARRAY_T(T, count) and
\* _CC_NEW_ARRAY_T_ALIGN(T, count, align) request is at least count times
\* sizeof(T), and no element is constructed outside the allocated block.
C10_ArrayBytesCoverCount ==
    (last.macro \in {"_CC_NEW_ARRAY_T", "_CC_NEW_ARRAY_T_ALIGN"}) =>
       /\ last.evs[1].bytes >= last.count * last.esize
       /\ last.res # NULL => ~ub

====
